---- MODULE Spec2Model ----
(***************************************************************************)
(* A model of the Texas Hold'em room of src/poker/game.py (Table and       *)
(* GameRoom) and of the socket entry points of src/server.py.              *)
(*                                                                         *)
(* State.  `table` is the Table object, one record field per attribute.    *)
(* `players` is GameRoom.players seen through _players_by_seat(): a        *)
(* function from the occupied seats to the Player records.  A session id   *)
(* is identified with the seat it occupies (_seat_of_sid is a bijection    *)
(* between the two), so a caller that is not seated is a seat outside      *)
(* DOMAIN players.  `logs` is GameRoom.logs reduced to the lines that      *)
(* print a hand; the order of the lines is left out.  Names, chat, the     *)
(* other log lines, last_action, last_log and buyin_total are display data *)
(* that no operation reads back and are left out.                          *)
(*                                                                         *)
(* Cards.  The deck is shuffled at random; a card is identified by its     *)
(* position in the shuffled deck, and `deck` counts the cards drawn.  What *)
(* the shuffle decides, the treys scores at showdown, is a                 *)
(* nondeterministic choice (ScoreChoices).                                 *)
(*                                                                         *)
(* `events` counts the join, leave, ready and buy-in events taken so far;   *)
(* it is not program state and only bounds the exploration.                *)
(***************************************************************************)
EXTENDS Integers, Sequences, FiniteSets, TLC

VARIABLES table, players, logs, events

vars == <<table, players, logs, events>>

(***************************************************************************)
(* Bounds of the exploration.                                              *)
(***************************************************************************)
\* Seats 1..MaxSeats (the code has range(1, 10)).
MaxSeats == 4
\* Sessions seated when the exploration begins (a full table apart).
MaxPlayers == 3
\* Hands started in one behaviour.
MaxHands == 1
\* Join, leave, ready and buy-in events in one behaviour.
MaxEvents == 1
\* Distinct showdown scores (treys ranks; lower is better).
NumScores == 3

(***************************************************************************)
(* Program constants.                                                      *)
(***************************************************************************)
small_blind == 5
big_blind == 10
DefaultChips == 1000

\* None, for a seat designation.
Null == 0

Seats == 1..MaxSeats

\* Stacks a player can hold between two hands (what earlier hands left).
InitStacks == {3, 15, DefaultChips}

\* The stacks of the rooms explored under joins and leaves during a hand.
RoomStacks == {15, DefaultChips}

\* Raise-to amounts a session sends.
RaiseTos == {5, 15}

\* The `amount` of an action event: <<>> is None, <<n>> the integer n.
Amounts == {<<>>} \cup {<<n>> : n \in RaiseTos}

\* The `amount` of a buy-in event.
BuyinAmounts == {0, 10}

\* The `type` of an action event as sent.
ActionTypes == {"fold", "check", "call", "raise", " Call ", "bet"}

Streets == {"preflop", "flop", "turn", "river"}

\* Player(sid, name, seat) with the dataclass defaults.
Player(chips) ==
    [chips |-> chips, ready |-> FALSE, hand |-> <<>>, bet |-> 0,
     total_bet |-> 0, folded |-> FALSE, all_in |-> FALSE]

\* Table.reset_table_state
reset_table_state ==
    [started |-> FALSE, hand_no |-> 0, stage |-> "waiting", board |-> <<>>,
     pot |-> 0, dealer_seat |-> Null, sb_seat |-> Null, bb_seat |-> Null,
     utg_seat |-> Null, action_seat |-> Null, current_bet |-> 0,
     min_raise |-> big_blind, to_act |-> <<>>, deck |-> 0,
     showdown_reveal |-> <<>>]

\* The state the operations work on: the table and the seat -> Player map.
State == [t |-> table, ps |-> players]

(***************************************************************************)
(* Helpers.                                                                *)
(***************************************************************************)
Min(S) == CHOOSE x \in S : \A y \in S : x <= y

Max(S) == CHOOSE x \in S : \A y \in S : x >= y

MinOf(a, b) == IF a <= b THEN a ELSE b

MaxOf(a, b) == IF a >= b THEN a ELSE b

\* sorted(seats)
RECURSIVE Sorted(_)
Sorted(S) == IF S = {} THEN <<>> ELSE <<Min(S)>> \o Sorted(S \ {Min(S)})

\* list.index
IndexOf(seq, x) == CHOOSE i \in 1..Len(seq) : seq[i] = x

Range(seq) == {seq[i] : i \in 1..Len(seq)}

\* list.remove(x) when x is in the list: drops the first occurrence.
Remove(seq, x) ==
    LET i == IndexOf(seq, x)
    IN  SubSeq(seq, 1, i - 1) \o SubSeq(seq, i + 1, Len(seq))

RECURSIVE SumOver(_, _)
SumOver(S, f) ==
    IF S = {} THEN 0
    ELSE LET x == CHOOSE y \in S : TRUE IN f[x] + SumOver(S \ {x}, f)

\* Table._seat_order
seat_order(seats, start_seat) ==
    IF seats = {} THEN <<>>
    ELSE LET seats_sorted == Sorted(seats)
             start_idx == IF start_seat \in seats
                          THEN IndexOf(seats_sorted, start_seat) ELSE 1
         IN  SubSeq(seats_sorted, start_idx, Len(seats_sorted))
                 \o SubSeq(seats_sorted, 1, start_idx - 1)

\* Table._next_seat (seats is never empty where it is called)
next_seat(seats, current) ==
    LET order == Sorted(seats)
    IN  IF current \notin seats THEN order[1]
        ELSE order[(IndexOf(order, current) % Len(order)) + 1]

\* The seats that are neither folded nor all-in.
CanAct(ps) == {s \in DOMAIN ps : ~ps[s].folded /\ ~ps[s].all_in}

\* Table._in_hand_seats
in_hand_seats(ps) == {s \in DOMAIN ps : ~ps[s].folded}

\* Table._start_betting_round
start_betting_round(S, first_to_act) ==
    LET cb == IF DOMAIN S.ps = {} THEN 0
              ELSE Max({S.ps[s].bet : s \in DOMAIN S.ps})
        mr == MaxOf(big_blind, S.t.min_raise)
        seats == CanAct(S.ps)
        order == seat_order(seats, first_to_act)
    IN  [S EXCEPT !.t.current_bet = cb, !.t.min_raise = mr,
                  !.t.to_act = order,
                  !.t.action_seat = IF seats = {} THEN Null ELSE order[1]]

\* Table._remove_from_to_act
remove_from_to_act(t, seat) ==
    LET ta == IF seat \in Range(t.to_act) THEN Remove(t.to_act, seat)
              ELSE t.to_act
    IN  [t EXCEPT !.to_act = ta,
                  !.action_seat = IF ta # <<>> THEN ta[1] ELSE Null]

\* A reset of the bets that keeps the minimum raise of the street before.
reset_round_bets_keeps_min_raise(S) ==
    [S EXCEPT !.ps = [s \in DOMAIN S.ps |-> [S.ps[s] EXCEPT !.bet = 0]],
              !.t.current_bet = 0]

\* Table._reset_round_bets
reset_round_bets(S) ==
    [S EXCEPT !.ps = [s \in DOMAIN S.ps |-> [S.ps[s] EXCEPT !.bet = 0]],
              !.t.current_bet = 0, !.t.min_raise = big_blind]

\* Table._deal: the next n cards of the deck
deal(t, n) == [i \in 1..n |-> t.deck + i]

\* Table._post_blind: what the player pays
blind_pay(p, amount) == MinOf(amount, p.chips)

\* Table._post_blind
post_blind(S, seat, amount) ==
    LET p == S.ps[seat]
        pay == blind_pay(p, amount)
    IN  [S EXCEPT !.ps[seat].chips = p.chips - pay,
                  !.ps[seat].bet = p.bet + pay,
                  !.ps[seat].total_bet = p.total_bet + pay,
                  !.ps[seat].all_in = IF p.chips - pay = 0 THEN TRUE
                                      ELSE p.all_in,
                  !.t.pot = S.t.pot + pay]

\* Table.start_hand
start_hand(S) ==
    LET seats_in_room == DOMAIN S.ps
        two == Cardinality(seats_in_room) = 2
        dealer == IF S.t.dealer_seat = Null THEN Min(seats_in_room)
                  ELSE next_seat(seats_in_room, S.t.dealer_seat)
        deal_order == seat_order(seats_in_room,
                                 next_seat(seats_in_room, dealer))
        ps1 == [s \in seats_in_room |->
                   [S.ps[s] EXCEPT
                       !.hand = LET k == IndexOf(deal_order, s)
                                IN  <<2 * k - 1, 2 * k>>,
                       !.bet = 0, !.total_bet = 0,
                       !.folded = FALSE, !.all_in = FALSE]]
        sb_seat == IF two THEN dealer ELSE next_seat(seats_in_room, dealer)
        bb_seat == IF two THEN next_seat(seats_in_room, dealer)
                   ELSE next_seat(seats_in_room, sb_seat)
        t1 == [S.t EXCEPT !.started = TRUE, !.hand_no = S.t.hand_no + 1,
                          !.stage = "preflop", !.board = <<>>, !.pot = 0,
                          !.showdown_reveal = <<>>,
                          !.deck = 2 * Cardinality(seats_in_room),
                          !.dealer_seat = dealer,
                          !.sb_seat = sb_seat, !.bb_seat = bb_seat]
        S1 == [t |-> t1, ps |-> ps1]
        sb_paid == blind_pay(S1.ps[sb_seat], small_blind)
        S2 == post_blind(S1, sb_seat, small_blind)
        bb_paid == blind_pay(S2.ps[bb_seat], big_blind)
        S3 == post_blind(S2, bb_seat, big_blind)
        first == IF two THEN sb_seat ELSE next_seat(seats_in_room, bb_seat)
        S4 == [S3 EXCEPT !.t.current_bet = MaxOf(sb_paid, bb_paid),
                         !.t.min_raise = big_blind,
                         !.t.utg_seat = first]
    IN  start_betting_round(S4, first)

\* The first to act of a table that knows no heads-up rule.
postflop_first_ring(S) == next_seat(DOMAIN S.ps, S.t.dealer_seat)

\* Table._advance_stage: first to act postflop (lines 256-261)
postflop_first(S) ==
    IF Cardinality(DOMAIN S.ps) = 2 THEN S.t.dealer_seat
    ELSE next_seat(DOMAIN S.ps, S.t.dealer_seat)

\* Table._advance_stage
advance_stage(S) ==
    LET dealt == CASE S.t.stage = "preflop" ->
                        [S EXCEPT !.t.stage = "flop",
                                  !.t.board = S.t.board \o deal(S.t, 3),
                                  !.t.deck = S.t.deck + 3]
                   [] S.t.stage = "flop" ->
                        [S EXCEPT !.t.stage = "turn",
                                  !.t.board = S.t.board \o deal(S.t, 1),
                                  !.t.deck = S.t.deck + 1]
                   [] S.t.stage = "turn" ->
                        [S EXCEPT !.t.stage = "river",
                                  !.t.board = S.t.board \o deal(S.t, 1),
                                  !.t.deck = S.t.deck + 1]
                   [] S.t.stage = "river" ->
                        [S EXCEPT !.t.stage = "showdown"]
                   [] OTHER -> S
    IN  IF S.t.stage \notin Streets THEN S
        ELSE IF dealt.t.stage = "showdown" THEN dealt
        ELSE start_betting_round(reset_round_bets(dealt),
                                 postflop_first(dealt))

\* Table._maybe_finish_early: the state when it returns True
finish_early(S) ==
    LET winner_seat == CHOOSE s \in in_hand_seats(S.ps) : TRUE
    IN  [S EXCEPT !.ps[winner_seat].chips = @ + S.t.pot,
                  !.t.stage = "waiting", !.t.started = FALSE,
                  !.t.action_seat = Null, !.t.to_act = <<>>]

\* Table._all_active_all_in_or_matched
all_active_all_in_or_matched(S) ==
    \A s \in DOMAIN S.ps :
        S.ps[s].folded \/ S.ps[s].all_in \/ S.ps[s].bet = S.t.current_bet

\* Table._auto_run_if_all_in: the while loop
RECURSIVE auto_run_loop(_)
auto_run_loop(S) ==
    IF S.t.stage \notin Streets THEN S
    ELSE LET A == advance_stage(S)
         IN  IF A.t.stage = "showdown" THEN A
             ELSE IF CanAct(A.ps) # {} THEN A
             ELSE auto_run_loop([A EXCEPT !.t.action_seat = Null,
                                          !.t.to_act = <<>>])

\* Table._auto_run_if_all_in
auto_run_if_all_in(S) ==
    IF S.t.action_seat # Null THEN S
    ELSE IF ~all_active_all_in_or_matched(S) THEN S
    ELSE auto_run_loop(S)

(***************************************************************************)
(* Table.apply_action.                                                     *)
(***************************************************************************)
\* action_type = (action_type or "").lower().strip()
normalise(action_type) ==
    CASE action_type = " Call " -> "call"
      [] OTHER -> action_type

\* A table that takes an action from any seated player who has not folded.
ensure_turn_any_seat(S, sid) ==
    IF ~S.t.started \/ S.t.stage = "waiting" THEN "NotStarted"
    ELSE IF S.t.action_seat = Null THEN "NotStarted"
    ELSE IF sid \notin DOMAIN S.ps THEN "NotSeated"
    ELSE IF S.ps[sid].folded THEN "AlreadyFolded"
    ELSE "none"

\* Table._ensure_turn, after the check of lines 313-314: the error it
\* raises, or "none".
ensure_turn(S, sid) ==
    IF ~S.t.started \/ S.t.stage = "waiting" THEN "NotStarted"
    ELSE IF S.t.action_seat = Null THEN "NotStarted"
    ELSE IF sid \notin DOMAIN S.ps THEN "NotSeated"
    ELSE IF sid # S.t.action_seat THEN "NotYourTurn"
    ELSE IF S.ps[sid].folded THEN "AlreadyFolded"
    ELSE "none"

\* The fold branch up to _remove_from_to_act (lines 322-326).
do_fold(S, seat) ==
    [S EXCEPT !.ps[seat].folded = TRUE,
              !.t = remove_from_to_act(S.t, seat)]

\* The check branch (lines 333-335).
do_check(S, seat) == [S EXCEPT !.t = remove_from_to_act(S.t, seat)]

\* A call that always pays what is needed to match the bet, whatever the
\* caller holds.
do_call_in_full(S, seat) ==
    LET p == S.ps[seat]
        need == MaxOf(0, S.t.current_bet - p.bet)
    IN  [S EXCEPT !.ps[seat].chips = p.chips - need,
                  !.ps[seat].bet = p.bet + need,
                  !.ps[seat].total_bet = p.total_bet + need,
                  !.t = remove_from_to_act([S.t EXCEPT !.pot = @ + need],
                                           seat)]

\* The call branch (lines 338-348, and 360-370 for a raise-to that does not
\* exceed current_bet).
do_call(S, seat) ==
    LET p == S.ps[seat]
        need == MaxOf(0, S.t.current_bet - p.bet)
        pay == MinOf(need, p.chips)
    IN  [S EXCEPT !.ps[seat].chips = p.chips - pay,
                  !.ps[seat].bet = p.bet + pay,
                  !.ps[seat].total_bet = p.total_bet + pay,
                  !.ps[seat].all_in = IF p.chips - pay = 0 /\ need > 0
                                      THEN TRUE ELSE p.all_in,
                  !.t = remove_from_to_act([S.t EXCEPT !.pot = @ + pay],
                                           seat)]

\* The rule of a stricter table, where an all-in below the minimum raise is
\* not a raise.
raise_error_strict(S, seat, raise_to) ==
    IF raise_to > S.ps[seat].bet + S.ps[seat].chips THEN "InsufficientChips"
    ELSE IF raise_to - S.t.current_bet < S.t.min_raise THEN "BelowMinRaise"
    ELSE "none"

\* The error of an accepted-or-not raise-to above current_bet (lines
\* 372-379), or "none".
raise_error(S, seat, raise_to) ==
    LET p == S.ps[seat]
        raise_amount == raise_to - S.t.current_bet
        is_all_in == raise_to = p.bet + p.chips
    IN  IF raise_to > p.bet + p.chips THEN "InsufficientChips"
        ELSE IF raise_amount < S.t.min_raise /\ ~is_all_in
             THEN "BelowMinRaise"
        ELSE "none"

\* The list a raise rebuilds _to_act to (lines 396-407).
raise_to_act(ps, seat) ==
    LET seats_can_act == CanAct(ps) \ {seat}
    IN  seat_order(seats_can_act, next_seat(DOMAIN ps, seat))

\* An accepted raise (lines 381-407).
do_raise(S, seat, raise_to) ==
    LET p == S.ps[seat]
        delta == raise_to - p.bet
        ps1 == [S.ps EXCEPT ![seat].chips = p.chips - delta,
                            ![seat].bet = raise_to,
                            ![seat].total_bet = p.total_bet + delta,
                            ![seat].all_in = IF p.chips - delta = 0 THEN TRUE
                                             ELSE p.all_in]
        order == raise_to_act(ps1, seat)
    IN  [t |-> [S.t EXCEPT !.pot = @ + delta,
                           !.min_raise = MaxOf(S.t.min_raise,
                                               raise_to - S.t.current_bet),
                           !.current_bet = raise_to,
                           !.to_act = order,
                           !.action_seat = IF order # <<>> THEN order[1]
                                           ELSE Null],
         ps |-> ps1]

\* The error apply_action raises for this call, or "none" when it accepts.
action_error(S, sid, action_type, amount) ==
    LET kind == normalise(action_type)
        turn == ensure_turn(S, sid)
    IN  IF turn # "none" THEN turn
        ELSE IF kind = "fold" THEN "none"
        ELSE IF kind = "check"
             THEN IF S.ps[sid].bet # S.t.current_bet THEN "CannotCheck"
                  ELSE "none"
        ELSE IF kind = "call" THEN "none"
        ELSE IF kind = "raise"
             THEN IF amount = <<>> THEN "NeedAmount"
                  ELSE IF amount[1] <= S.t.current_bet THEN "none"
                  ELSE raise_error(S, sid, amount[1])
        ELSE "UnknownAction"

\* The state after the branch of an accepted action, before the end of the
\* betting round is looked at (line 412).
after_branch(S, seat, action_type, amount) ==
    LET kind == normalise(action_type)
    IN  CASE kind = "fold" -> do_fold(S, seat)
          [] kind = "check" -> do_check(S, seat)
          [] kind = "call" -> do_call(S, seat)
          [] kind = "raise" ->
                IF amount[1] <= S.t.current_bet THEN do_call(S, seat)
                ELSE do_raise(S, seat, amount[1])

\* Lines 412-416: close the betting round, then run out the board.
end_round(S) ==
    auto_run_if_all_in(
        IF S.t.to_act = <<>> /\ S.t.started /\ S.t.stage \in Streets
        THEN advance_stage(S) ELSE S)

\* Table.apply_action: the error ("none" when accepted) and the state left.
apply_action(S, sid, action_type, amount) ==
    LET err == action_error(S, sid, action_type, amount)
        mid == after_branch(S, sid, action_type, amount)
    IN  IF err # "none" THEN [err |-> err, S |-> S]
        ELSE IF normalise(action_type) = "fold"
                /\ Cardinality(in_hand_seats(mid.ps)) = 1
             THEN [err |-> "none", S |-> finish_early(mid)]
        ELSE [err |-> "none", S |-> end_round(mid)]

(***************************************************************************)
(* Table.finish_showdown.                                                  *)
(***************************************************************************)
\* levels = sorted({t for t in totals.values() if t > 0})
levels(ps) == {ps[s].total_bet : s \in DOMAIN ps} \ {0}

\* `prev` when the loop reaches `level`
prev_level(ps, level) ==
    LET below == {l \in levels(ps) : l < level}
    IN  IF below = {} THEN 0 ELSE Max(below)

\* contributors = [seat for seat, t in totals.items() if t >= level]
contributors(ps, level) == {s \in DOMAIN ps : ps[s].total_bet >= level}

\* pot_amount = (level - prev) * len(contributors)
pot_amount(ps, level) ==
    (level - prev_level(ps, level)) * Cardinality(contributors(ps, level))

\* A layer shared the other way round: the odd chips go to the highest
\* seats.
layer_payout_high_seats_first(ps, scores, level, seat) ==
    LET eligible == contributors(ps, level) \cap in_hand_seats(ps)
        best_score == Min({scores[s] : s \in eligible})
        winners == {s \in eligible : scores[s] = best_score}
        share == pot_amount(ps, level) \div Cardinality(winners)
        remainder == pot_amount(ps, level) - share * Cardinality(winners)
    IN  IF eligible = {} THEN 0
        ELSE IF seat \notin winners THEN 0
        ELSE share + (IF IndexOf(Sorted(winners), seat)
                            > Cardinality(winners) - remainder
                      THEN 1 ELSE 0)

\* What one level of the loop (lines 446-468) adds to payouts[seat].
layer_payout(ps, scores, level, seat) ==
    LET eligible == contributors(ps, level) \cap in_hand_seats(ps)
        best_score == Min({scores[s] : s \in eligible})
        winners == {s \in eligible : scores[s] = best_score}
        share == pot_amount(ps, level) \div Cardinality(winners)
        remainder == pot_amount(ps, level) - share * Cardinality(winners)
    IN  IF eligible = {} THEN 0
        ELSE IF seat \notin winners THEN 0
        ELSE share + (IF IndexOf(Sorted(winners), seat) <= remainder
                      THEN 1 ELSE 0)

\* payouts, after the loop over the levels
showdown_payouts(ps, scores) ==
    [seat \in DOMAIN ps |->
        SumOver(levels(ps),
                [l \in levels(ps) |-> layer_payout(ps, scores, l, seat)])]

\* What finish_showdown credits to every seat: the whole pot to a single
\* contender (lines 426-430), the side-pot payouts otherwise.
credited(S, scores) ==
    LET contenders == in_hand_seats(S.ps)
    IN  IF Cardinality(contenders) = 1
        THEN [seat \in DOMAIN S.ps |->
                 IF seat \in contenders THEN S.t.pot ELSE 0]
        ELSE showdown_payouts(S.ps, scores)

\* A showdown that turns over the cards of every seated player, folded or
\* not.
finish_showdown_shows_all(S, scores) ==
    [t |-> [S.t EXCEPT !.showdown_reveal =
               [s \in DOMAIN S.ps |-> S.ps[s].hand]],
     ps |-> [s \in DOMAIN S.ps |->
                [S.ps[s] EXCEPT !.chips = @ + credited(S, scores)[s]]]]

\* Table.finish_showdown
finish_showdown(S, scores) ==
    LET contenders == in_hand_seats(S.ps)
        pay == credited(S, scores)
    IN  [t |-> [S.t EXCEPT !.showdown_reveal =
                   [s \in DOMAIN S.t.showdown_reveal \cup contenders |->
                       IF s \in contenders THEN S.ps[s].hand
                       ELSE S.t.showdown_reveal[s]]],
         ps |-> [s \in DOMAIN S.ps |->
                    [S.ps[s] EXCEPT !.chips = @ + pay[s]]]]

\* The scores evaluator.evaluate can give the contenders: any ranks, except
\* that a contender without hole cards is scored on the board alone, which
\* no 7-card hand over the same board scores worse than.
ScoreChoices(S) ==
    LET contenders == in_hand_seats(S.ps)
    IN  {f \in [contenders -> 1..NumScores] :
            \A c \in contenders :
                S.ps[c].hand = <<>> => \A d \in contenders : f[d] <= f[c]}

(***************************************************************************)
(* GameRoom and the socket events of server.py.                            *)
(***************************************************************************)
\* GameRoom._next_free_seat, Null when the room is full
next_free_seat(ps) ==
    IF Seats \ DOMAIN ps = {} THEN Null ELSE Min(Seats \ DOMAIN ps)

\* GameRoom.player_action after apply_action accepted: settle a showdown.
settle(S, scores) ==
    LET F == finish_showdown(S, scores)
    IN  [t |-> [F.t EXCEPT !.stage = "waiting", !.started = FALSE,
                           !.action_seat = Null, !.to_act = <<>>],
         ps |-> [s \in DOMAIN F.ps |-> [F.ps[s] EXCEPT !.ready = FALSE]]]

\* GameRoom.player_action: the states it can leave, one for each way the
\* hands can score at a showdown.  A rejected call raises before anything
\* is written and leaves the state as it is.
player_action(S, sid, action_type, amount) ==
    LET r == apply_action(S, sid, action_type, amount)
    IN  IF r.err # "none" THEN {S}
        ELSE IF r.S.t.stage = "showdown"
             THEN {settle(r.S, scores) : scores \in ScoreChoices(r.S)}
        ELSE {r.S}

\* GameRoom.player_action: the lines "<name> 手牌：<cards>" it appends to the
\* log, one for each seat of the ranking of a showdown (lines 633-636).
hand_lines(S, sid, action_type, amount) ==
    LET r == apply_action(S, sid, action_type, amount)
    IN  IF r.err = "none" /\ r.S.t.stage = "showdown"
        THEN {[seat |-> s, hand_no |-> r.S.t.hand_no,
               hand |-> r.S.ps[s].hand] : s \in in_hand_seats(r.S.ps)}
        ELSE {}

\* on_action -> GameRoom.player_action
PlayerAction(sid, action_type, amount) ==
    /\ \E R \in player_action(State, sid, action_type, amount) :
          table' = R.t /\ players' = R.ps
    /\ logs' = logs \cup hand_lines(State, sid, action_type, amount)
    /\ events' = events

\* GameRoom.remove_player, for a session in the room
remove_player(S, sid) ==
    LET r == apply_action(S, sid, "fold", <<>>)
        S1 == IF S.t.started /\ S.t.action_seat = sid /\ r.err = "none"
              THEN r.S ELSE S
    IN  [t |-> S1.t, ps |-> [s \in DOMAIN S1.ps \ {sid} |-> S1.ps[s]]]

\* on_disconnect / on_leave -> GameRoom.remove_player
OnLeave(sid) ==
    /\ sid \in DOMAIN players
    /\ LET R == remove_player(State, sid)
       IN  table' = R.t /\ players' = R.ps
    /\ logs' = logs
    /\ events' = events + 1

\* GameRoom.add_player for a session that is not in the room
add_player(ps) ==
    [s \in DOMAIN ps \cup {next_free_seat(ps)} |->
        IF s \in DOMAIN ps THEN ps[s] ELSE Player(DefaultChips)]

\* on_join -> GameRoom.add_player; a full room raises and changes nothing
OnJoin ==
    /\ IF next_free_seat(players) = Null THEN players' = players
       ELSE players' = add_player(players)
    /\ UNCHANGED <<table, logs>>
    /\ events' = events + 1

\* GameRoom.buyin: the error it raises, or "none"
buyin_error(S, sid, amount) ==
    IF sid \notin DOMAIN S.ps THEN "NotSeated"
    ELSE IF S.t.started THEN "HandInProgress"
    ELSE IF amount <= 0 THEN "InvalidAmount"
    ELSE "none"

\* GameRoom.buyin
buyin(S, sid, amount) ==
    IF buyin_error(S, sid, amount) # "none" THEN S
    ELSE [S EXCEPT !.ps[sid].chips = @ + amount]

\* on_buyin -> GameRoom.buyin
OnBuyin(sid, amount) ==
    /\ LET R == buyin(State, sid, amount)
       IN  table' = R.t /\ players' = R.ps
    /\ logs' = logs
    /\ events' = events + 1

\* GameRoom.start_hand: the error it raises, or "none"
start_error(ps, requester_sid) ==
    IF requester_sid \notin DOMAIN ps THEN "NotSeated"
    ELSE IF Cardinality(DOMAIN ps) < 2 THEN "MinPlayers"
    ELSE IF \E s \in DOMAIN ps : ~ps[s].ready THEN "NotReady"
    ELSE "none"

\* on_start: the state GameRoom.start_hand leaves; a start that raises
\* changes nothing.
on_start(S, sid) ==
    IF start_error(S.ps, sid) # "none" THEN S ELSE start_hand(S)

\* on_start -> GameRoom.start_hand
OnStart(sid) ==
    /\ LET R == on_start(State, sid)
       IN  table' = R.t /\ players' = R.ps
    /\ logs' = logs
    /\ events' = events

\* The condition of on_ready's auto-start (server.py line 115)
auto_start(t, ps) ==
    /\ ~t.started
    /\ Cardinality(DOMAIN ps) >= 2
    /\ \A s \in DOMAIN ps : ps[s].ready

\* GameRoom.toggle_ready
toggle_ready(ps, sid) == [ps EXCEPT ![sid].ready = ~@]

\* on_ready for a session in the room: GameRoom.toggle_ready, then the
\* auto-start through GameRoom.start_hand.
on_ready(S, sid) ==
    LET S1 == [S EXCEPT !.ps = toggle_ready(S.ps, sid)]
    IN  IF auto_start(S1.t, S1.ps) THEN on_start(S1, sid) ELSE S1

\* on_ready -> GameRoom.toggle_ready, then the auto-start
OnReady(sid) ==
    /\ sid \in DOMAIN players
    /\ LET R == on_ready(State, sid)
       IN  table' = R.t /\ players' = R.ps
    /\ logs' = logs
    /\ events' = events + 1

\* GameRoom.public_state: what every session of the room is sent.  The
\* players, sorted by seat, are the function from their seats.
public_state(S, lg) ==
    [handNo |-> S.t.hand_no, started |-> S.t.started, stage |-> S.t.stage,
     dealerSeat |-> S.t.dealer_seat, sbSeat |-> S.t.sb_seat,
     bbSeat |-> S.t.bb_seat, utgSeat |-> S.t.utg_seat,
     actionSeat |-> S.t.action_seat, pot |-> S.t.pot, board |-> S.t.board,
     currentBet |-> S.t.current_bet, minRaise |-> S.t.min_raise,
     players |-> [s \in DOMAIN S.ps |->
                     [chips |-> S.ps[s].chips, bet |-> S.ps[s].bet,
                      totalBet |-> S.ps[s].total_bet,
                      folded |-> S.ps[s].folded, allIn |-> S.ps[s].all_in,
                      ready |-> S.ps[s].ready]],
     logs |-> lg,
     showdown |-> S.t.showdown_reveal]

\* GameRoom.private_state: what the session sid alone is sent.
private_state(S, sid) ==
    [sid |-> sid,
     hand |-> IF sid \in DOMAIN S.ps THEN S.ps[sid].hand ELSE <<>>]

(***************************************************************************)
(* The room between two hands: the table as constructed, two or more       *)
(* seated sessions holding the stacks earlier hands left them.  Every      *)
(* session is ready, or every session but the one at seat 1.               *)
(***************************************************************************)
Rooms(n, stacks) ==
    {[s \in 1..n |-> [Player(c[s]) EXCEPT !.ready = (r \/ s # 1)]] :
        c \in [1..n -> stacks], r \in BOOLEAN}

Init ==
    /\ table = reset_table_state
    /\ players \in UNION {Rooms(n, RoomStacks) : n \in 2..MaxPlayers}
    /\ logs = {}
    /\ events = 0

\* The amounts sent with an action of this type.
AmountsOf(action_type) ==
    IF action_type = "raise" THEN Amounts ELSE {<<>>}

\* A further hand can be started, or one is in progress.
Live == table.started \/ table.hand_no < MaxHands

\* A hand may be started: the exploration stops after MaxHands hands.
MayStart == table.hand_no < MaxHands

OnAction ==
    \E sid \in Seats, a \in ActionTypes :
        \E amount \in AmountsOf(a) : PlayerAction(sid, a, amount)

Leave == Live /\ events < MaxEvents /\ \E sid \in Seats : OnLeave(sid)

Join == Live /\ events < MaxEvents /\ OnJoin

Ready == MayStart /\ events < MaxEvents /\ \E sid \in Seats : OnReady(sid)

Start == MayStart /\ \E sid \in Seats : OnStart(sid)

Buyin ==
    /\ Live /\ events < MaxEvents
    /\ \E sid \in Seats, amount \in BuyinAmounts : OnBuyin(sid, amount)

\* The room under every event of server.py, in any order.
Next == OnAction \/ Leave \/ Join \/ Ready \/ Start \/ Buyin

Spec == Init /\ [][Next]_vars

(***************************************************************************)
(* The room when nobody joins or leaves during a hand: sessions come, go   *)
(* and get ready only while the table is idle.  A full table of default    *)
(* stacks is among the rooms it starts from.                               *)
(***************************************************************************)
InitHand ==
    /\ table = reset_table_state
    /\ players \in UNION {Rooms(n, InitStacks) : n \in 2..MaxPlayers}
                      \cup Rooms(MaxSeats, {DefaultChips})
    /\ logs = {}
    /\ events = 0

Idle == ~table.started

NextHand ==
    \/ OnAction
    \/ Idle /\ Leave
    \/ Idle /\ Join
    \/ Idle /\ Ready
    \/ Idle /\ Start
    \/ Idle /\ Buyin

SpecHand == InitHand /\ [][NextHand]_vars

\* The player designated at action_seat submits an action; the step
\* changes the state only when the action is legal.
ActingPlayerActs ==
    /\ table.action_seat # Null
    /\ \E a \in ActionTypes : \E amount \in AmountsOf(a) :
          PlayerAction(table.action_seat, a, amount)

\* The heads-up rooms between two hands.
InitLive ==
    /\ table = reset_table_state
    /\ players \in Rooms(2, InitStacks)
    /\ logs = {}
    /\ events = 0

\* The heads-up room with nobody joining or leaving during a hand, where
\* the player designated at action_seat eventually submits a legal action.
SpecLive == InitLive /\ [][NextHand]_vars /\ WF_vars(ActingPlayerActs)

(***************************************************************************)
(* The room over several hands: it starts with any two or more seats       *)
(* taken by ready sessions with default stacks; hands are played, and      *)
(* between hands sessions leave, join and get ready.                       *)
(***************************************************************************)
\* Hands started in one behaviour of the room over several hands.
MaxButtonHands == 2
\* Join, leave and ready events in one such behaviour.
MaxButtonEvents == 2

InitButton ==
    /\ table = reset_table_state
    /\ players \in {[s \in Q |-> [Player(DefaultChips) EXCEPT !.ready = TRUE]] :
                       Q \in {R \in SUBSET Seats : Cardinality(R) >= 2}}
    /\ logs = {}
    /\ events = 0

\* An action event without an amount.
ActionNoAmount ==
    \E sid \in Seats, a \in ActionTypes : PlayerAction(sid, a, <<>>)

LeaveBetweenHands ==
    /\ Idle /\ events < MaxButtonEvents
    /\ \E sid \in Seats : OnLeave(sid)

JoinBetweenHands == Idle /\ events < MaxButtonEvents /\ OnJoin

ReadyBetweenHands ==
    /\ Idle /\ events < MaxButtonEvents /\ table.hand_no < MaxButtonHands
    /\ \E sid \in Seats : OnReady(sid)

StartBetweenHands ==
    /\ Idle /\ table.hand_no < MaxButtonHands
    /\ \E sid \in Seats : OnStart(sid)

NextButton ==
    \/ ActionNoAmount
    \/ LeaveBetweenHands
    \/ JoinBetweenHands
    \/ ReadyBetweenHands
    \/ StartBetweenHands

SpecButton == InitButton /\ [][NextButton]_vars

(***************************************************************************)
(* The showdown on its own: the table as player_action finds it when       *)
(* apply_action returns at stage showdown, for every way MaxPlayers        *)
(* players can have committed one of a few totals and folded or not, two   *)
(* or more of them still in the hand.  A player who is in for less than    *)
(* another player in the hand is all-in; the others hold the rest of a     *)
(* default stack.                                                          *)
(***************************************************************************)
\* The total_bet a player can have at the showdown.
ShowdownTotals == {3, 10, 300}

ShowdownPlayers(totals, folded) ==
    LET top == Max({totals[s] : s \in {u \in DOMAIN totals : ~folded[u]}})
    IN  [s \in DOMAIN totals |->
            [chips |-> IF ~folded[s] /\ totals[s] < top THEN 0
                       ELSE DefaultChips - totals[s],
             ready |-> TRUE, hand |-> <<2 * s - 1, 2 * s>>, bet |-> 0,
             total_bet |-> totals[s], folded |-> folded[s],
             all_in |-> ~folded[s] /\ totals[s] < top]]

ShowdownTable(ps) ==
    [reset_table_state EXCEPT
        !.started = TRUE, !.hand_no = 1, !.stage = "showdown",
        !.deck = 2 * Cardinality(DOMAIN ps) + 5,
        !.board = [i \in 1..5 |-> 2 * Cardinality(DOMAIN ps) + i],
        !.pot = SumOver(DOMAIN ps, [s \in DOMAIN ps |-> ps[s].total_bet]),
        !.dealer_seat = 1, !.sb_seat = 2, !.bb_seat = 3, !.utg_seat = 1]

InitShowdown ==
    /\ \E totals \in [1..MaxPlayers -> ShowdownTotals],
          folded \in [1..MaxPlayers -> BOOLEAN] :
          /\ Cardinality({s \in 1..MaxPlayers : ~folded[s]}) >= 2
          /\ players = ShowdownPlayers(totals, folded)
          /\ table = ShowdownTable(ShowdownPlayers(totals, folded))
    /\ logs = {}
    /\ events = 0

\* GameRoom.player_action from line 600 on: the showdown is settled.
Settle ==
    /\ table.stage = "showdown"
    /\ \E scores \in ScoreChoices(State) :
          LET R == settle(State, scores)
          IN  table' = R.t /\ players' = R.ps
    /\ logs' = logs \cup {[seat |-> s, hand_no |-> table.hand_no,
                             hand |-> players[s].hand] :
                               s \in in_hand_seats(players)}
    /\ events' = events

SpecShowdown == InitShowdown /\ [][Settle]_vars

(***************************************************************************)
(* The properties checked.                                                 *)
(***************************************************************************)
\* The chips held by the sessions in the room.
SumChips(ps) == SumOver(DOMAIN ps, [s \in DOMAIN ps |-> ps[s].chips])

\* The chips the hand in progress holds.
InPlay(t) == IF t.started THEN t.pot ELSE 0

\* C1: chip conservation.  From StartHand to the return to waiting, with
\* no join or leave during the hand, every step keeps the chips of the
\* players plus the pot of the hand in progress: StartHand moves the blinds
\* into the pot, an action moves chips into it, and settlement pays out
\* exactly the pot.
C1_ChipConservation ==
    [][(table.started \/ table'.started) =>
          SumChips(players') + InPlay(table')
              = SumChips(players) + InPlay(table)]_vars

\* The chips the sessions in the room have committed to the hand.
SumTotalBet(ps) == SumOver(DOMAIN ps, [s \in DOMAIN ps |-> ps[s].total_bet])

InProgress == table.stage \in Streets \cup {"showdown"}

\* C2: pot equals total committed.  While a hand is in progress, whatever
\* starts, actions, joins and leaves came before, the pot is the sum of
\* total_bet over the players in the room.
C2_PotIsCommitted == InProgress => table.pot = SumTotalBet(players)

\* Every call of apply_action the sessions can make in this state.
Calls ==
    {[sid |-> sid, type |-> a, amount |-> amount] :
        sid \in Seats, a \in ActionTypes, amount \in Amounts}

\* What apply_action answers to a call in this state.
Answer(c) == apply_action(State, c.sid, c.type, c.amount)

\* The chips of the contribution layers up to the total_bet of seat s.
LayerBound(ps, s) ==
    LET mine == {l \in levels(ps) : l <= ps[s].total_bet}
    IN  SumOver(mine, [l \in mine |-> pot_amount(ps, l)])

\* C3: side-pot isolation.  Whenever an action brings the table to the
\* showdown, whatever the hands are worth, finish_showdown pays a seat
\* with total_bet T no more than the layers L <= T hold, and pays a folded
\* seat nothing.
C3_SidePotIsolation ==
    \A c \in Calls :
        LET r == Answer(c)
        IN  (r.err = "none" /\ r.S.t.stage = "showdown") =>
               \A scores \in ScoreChoices(r.S) : \A s \in DOMAIN r.S.ps :
                  /\ credited(r.S, scores)[s] <= LayerBound(r.S.ps, s)
                  /\ r.S.ps[s].folded => credited(r.S, scores)[s] = 0

\* The calls that are a raise-to R above current_bet by the player whose
\* turn it is.
RaiseCalls ==
    {c \in Calls : /\ normalise(c.type) = "raise"
                   /\ c.amount # <<>>
                   /\ ensure_turn(State, c.sid) = "none"
                   /\ c.amount[1] > table.current_bet}

\* The minimum raise law for one such call: R within the stack is accepted
\* exactly when it is a full raise or all-in, R beyond the stack never.
RaiseLaw(c) ==
    LET p == players[c.sid]
        R == c.amount[1]
        stack == p.bet + p.chips
    IN  Answer(c).err = "none" <=>
           /\ R <= stack
           /\ R >= table.current_bet + table.min_raise \/ R = stack

\* current_bet and min_raise as rule 4 of the raise leaves them.
RaiseSets(c) ==
    LET r == Answer(c)
    IN  /\ r.S.t.current_bet = c.amount[1]
        /\ r.S.t.min_raise =
              MaxOf(table.min_raise, c.amount[1] - table.current_bet)

\* An accepted raise when another player is neither folded nor all-in: the
\* raise leaves somebody to act.
Reopens(c) ==
    /\ Answer(c).err = "none"
    /\ CanAct(players) \ {c.sid} # {}

Accepted(c) == Answer(c).err = "none"

\* The state an accepted call reaches before the end of the betting round
\* is looked at.
Mid(c) == after_branch(State, c.sid, c.type, c.amount)

\* The call returns with the table on another stage.
StageMoves(c) == Answer(c).S.t.stage # table.stage

\* Every player who is neither folded nor all-in has acted (is no longer to
\* act) and has matched the bet.
AllActedAndMatched(S) ==
    \A s \in CanAct(S.ps) :
        s \notin Range(S.t.to_act) /\ S.ps[s].bet = S.t.current_bet

\* C5: round closure.  An accepted action that leaves two or more players
\* in the hand ends the betting round, and the stage advances, exactly when
\* after it every non-folded non-all-in player has acted and has
\* bet = current_bet.
C5_RoundClosure ==
    \A c \in Calls :
        (Accepted(c) /\ Cardinality(in_hand_seats(Mid(c).ps)) > 1) =>
            (StageMoves(c) <=> AllActedAndMatched(Mid(c)))

\* The seats of a set in ascending cyclic order, beginning with the first
\* one that follows the seat `after`.
CyclicAfter(seats, after) ==
    Sorted({s \in seats : s > after}) \o Sorted({s \in seats : s <= after})

HeadOrNull(seq) == IF seq = <<>> THEN Null ELSE seq[1]

\* to_act and action_seat are the players who can act, in cyclic order
\* after the seat `after`.
OrderedAfter(S, after) ==
    /\ S.t.to_act = CyclicAfter(CanAct(S.ps), after)
    /\ S.t.action_seat = HeadOrNull(S.t.to_act)

PostFlop == {"flop", "turn", "river"}

\* C6: action ordering at round start.  With three or more seated players,
\* StartHand orders the players who can act from the seat after the big
\* blind, and an action that brings the table to the flop, turn or river
\* orders them from the first one after the dealer, whoever folded or went
\* all-in before.
C6_ActionOrdering ==
    Cardinality(DOMAIN players) >= 3 =>
       /\ ~table.started =>
             OrderedAfter(start_hand(State), start_hand(State).t.bb_seat)
       /\ \A c \in Calls :
             (Accepted(c) /\ StageMoves(c)
                 /\ Answer(c).S.t.stage \in PostFlop) =>
                OrderedAfter(Answer(c).S, table.dealer_seat)

\* C7: reopening on a raise.  Right after an accepted raise, to_act holds
\* the players who can act other than the raiser, in cyclic order from the
\* first one after the raiser, and action_seat is its head, or null when
\* nobody is left to act.
C7_Reopening ==
    \A c \in RaiseCalls :
        Accepted(c) =>
           /\ Mid(c).t.to_act =
                 CyclicAfter(CanAct(Mid(c).ps) \ {c.sid}, c.sid)
           /\ Mid(c).t.action_seat = HeadOrNull(Mid(c).t.to_act)

\* Exactly two players are seated when the operation runs.
HeadsUp == Cardinality(DOMAIN players) = 2

\* The seats of a sequence that can act, in its order.
ThoseWhoCanAct(seq, ps) == SelectSeq(seq, LAMBDA s : s \in CanAct(ps))

\* A step that is a StartHand.
StartStep == ~table.started /\ table'.started

\* A step that brings the table to a postflop street.
StreetStep == table'.stage # table.stage /\ table'.stage \in PostFlop

\* On a street just entered the dealer, when neither folded nor all-in, is
\* the first to act.
DealerFirst ==
    table'.dealer_seat \in CanAct(players') =>
        table'.action_seat = table'.dealer_seat

\* C8 as the spec states it: with exactly two seated players StartHand
\* makes the dealer the small blind, the dealer acts first before the flop
\* and the big blind after them; on every postflop street the dealer, when
\* neither folded nor all-in, acts first.
C8_HeadsUpAsStated ==
    [][HeadsUp =>
          /\ StartStep =>
                /\ table'.sb_seat = table'.dealer_seat
                /\ table'.to_act = <<table'.dealer_seat, table'.bb_seat>>
                /\ table'.action_seat = table'.dealer_seat
          /\ StreetStep => DealerFirst]_vars

\* C8, amended: with exactly two seated players StartHand makes the dealer
\* the small blind; before the flop the dealer acts first and the big blind
\* after them, each only if posting the blind did not put them all-in; on
\* every postflop street the dealer, when neither folded nor all-in, acts
\* first.
C8_HeadsUp ==
    [][HeadsUp =>
          /\ StartStep =>
                /\ table'.sb_seat = table'.dealer_seat
                /\ table'.to_act =
                      ThoseWhoCanAct(<<table'.dealer_seat, table'.bb_seat>>,
                                     players')
                /\ table'.action_seat = HeadOrNull(table'.to_act)
          /\ StreetStep => DealerFirst]_vars

\* A heads-up hand has reached the flop with both players to act, the
\* dealer and small blind first.
C8_Witness ==
    /\ HeadsUp
    /\ table.stage = "flop"
    /\ table.sb_seat = table.dealer_seat
    /\ table.to_act = <<table.dealer_seat, table.bb_seat>>
    /\ table.action_seat = table.dealer_seat

Seated(c) == c.sid \in DOMAIN players

Kind(c) == normalise(c.type)

\* The cases in which the spec says a call is rejected.
NoHandRunning == ~table.started \/ table.stage = "waiting"

NotAtActionSeat(c) == c.sid # table.action_seat

HasFolded(c) == Seated(c) /\ players[c.sid].folded

CheckBehind(c) ==
    Kind(c) = "check" /\ Seated(c)
        /\ players[c.sid].bet # table.current_bet

RaiseWithoutAmount(c) == Kind(c) = "raise" /\ c.amount = <<>>

RaiseAboveStack(c) ==
    /\ Kind(c) = "raise" /\ c.amount # <<>> /\ Seated(c)
    /\ c.amount[1] > players[c.sid].bet + players[c.sid].chips

RaiseBelowMinimum(c) ==
    /\ Kind(c) = "raise" /\ c.amount # <<>> /\ Seated(c)
    /\ c.amount[1] # players[c.sid].bet + players[c.sid].chips
    /\ c.amount[1] > table.current_bet
    /\ c.amount[1] < table.current_bet + table.min_raise

UnknownType(c) == Kind(c) \notin {"fold", "check", "call", "raise"}

\* The call is answered with an error and the table and the players are as
\* before it.
Rejected(c) == Answer(c).err # "none" /\ Answer(c).S = State

\* C9 as the spec states it: a call is rejected and leaves every field of
\* the table and of the players unchanged when no hand is running, the
\* caller is not seated, is not at action_seat or has folded, on a check
\* with bet # current_bet, on a raise without an amount, on a raise-to
\* above bet + chips, on a non-all-in raise-to below current_bet +
\* min_raise, and on an unknown action type.
C9_RejectedAsStated ==
    \A c \in Calls :
        (\/ NoHandRunning \/ ~Seated(c) \/ NotAtActionSeat(c)
         \/ HasFolded(c) \/ CheckBehind(c) \/ RaiseWithoutAmount(c)
         \/ RaiseAboveStack(c) \/ RaiseBelowMinimum(c) \/ UnknownType(c))
            => Rejected(c)

\* C9, amended: the same, the raise-to above bet + chips being one that is
\* also above current_bet (a raise-to of at most current_bet is a call).
C9_Rejected ==
    \A c \in Calls :
        (\/ NoHandRunning \/ ~Seated(c) \/ NotAtActionSeat(c)
         \/ HasFolded(c) \/ CheckBehind(c) \/ RaiseWithoutAmount(c)
         \/ (RaiseAboveStack(c) /\ c.amount[1] > table.current_bet)
         \/ RaiseBelowMinimum(c) \/ UnknownType(c))
            => Rejected(c)

\* The player to act, with chips behind, sends a raise-to below the
\* minimum raise and is answered BelowMinRaise; another, not to act, is
\* answered that it is not their turn.
C9_Witness ==
    /\ \E c \in Calls :
          /\ c.sid = table.action_seat
          /\ RaiseBelowMinimum(c)
          /\ Answer(c).err = "BelowMinRaise"
    /\ \E c \in Calls :
          /\ Seated(c) /\ NotAtActionSeat(c)
          /\ Answer(c).err = "NotYourTurn"

\* The table is idle.
IdleTable(t) ==
    /\ t.stage = "waiting" /\ ~t.started
    /\ t.action_seat = Null /\ t.to_act = <<>>

\* C10: early termination.  When an accepted action leaves exactly one
\* player who has not folded, the call returns with the whole pot added to
\* that player's chips, the table idle and no further card on the board.
C10_EarlyTermination ==
    \A c \in Calls :
        (Accepted(c) /\ Cardinality(in_hand_seats(Mid(c).ps)) = 1) =>
            \A w \in in_hand_seats(Mid(c).ps) :
               /\ Answer(c).S.ps[w].chips = Mid(c).ps[w].chips + Mid(c).t.pot
               /\ IdleTable(Answer(c).S.t)
               /\ Answer(c).S.t.board = table.board

\* Scenario 1 as given: two seated players of 1000 chips each, StartHand
\* has just posted the blinds, and A, the dealer and small blind, is to act.
Scenario1 ==
    /\ HeadsUp
    /\ table.stage = "preflop"
    /\ table.dealer_seat \in DOMAIN players
    /\ table.sb_seat = table.dealer_seat
    /\ table.action_seat = table.dealer_seat
    /\ players[table.dealer_seat].total_bet = small_blind
    /\ table.pot = small_blind + big_blind
    /\ \A s \in DOMAIN players :
          players[s].chips + players[s].total_bet = DefaultChips

\* C11: scenario 1.  Heads-up with stacks 1000/1000, blinds 5/10 and A the
\* dealer and small blind: after StartHand and A folding before the flop, A
\* has 995 chips, B has 1005 chips, the pot is 0 and the stage is waiting.
C11_Scenario1 ==
    Scenario1 =>
        LET A == table.dealer_seat
            B == CHOOSE s \in DOMAIN players : s # A
            r == Answer([sid |-> A, type |-> "fold", amount |-> <<>>])
        IN  /\ r.err = "none"
            /\ r.S.ps[A].chips = 995
            /\ r.S.ps[B].chips = 1005
            /\ r.S.t.pot = 0
            /\ r.S.t.stage = "waiting"

\* The accepted call closes the betting round of a street: it leaves nobody
\* to act.
ClosesRound(c) ==
    Accepted(c) /\ table.stage \in Streets /\ Mid(c).t.to_act = <<>>

\* No further betting is possible: two or more players have not folded and
\* at most one of them is not all-in.
NoFurtherBetting(ps) ==
    /\ Cardinality(in_hand_seats(ps)) >= 2
    /\ Cardinality(CanAct(ps)) <= 1

\* C12: auto-run-out.  Whenever an action closes a betting round before the
\* showdown and no further betting is possible, the same call deals every
\* remaining street and returns with stage = showdown, a board of 5 cards
\* and nobody designated at action_seat.
C12_AutoRunOut ==
    \A c \in Calls :
        (ClosesRound(c) /\ NoFurtherBetting(Mid(c).ps)) =>
            /\ Answer(c).S.t.stage = "showdown"
            /\ Len(Answer(c).S.t.board) = 5
            /\ Answer(c).S.t.action_seat = Null

\* The gate of StartHand: two or more players present, every one of them
\* ready, and no hand in progress.
StartGate(S) ==
    /\ Cardinality(DOMAIN S.ps) >= 2
    /\ \A s \in DOMAIN S.ps : S.ps[s].ready
    /\ ~S.t.started

\* The event started a hand.
StartsHand(S, R) == R.t.hand_no # S.t.hand_no

\* C13: StartHand gating.  Through the explicit start event and through
\* the auto-start of the ready event (the gate being read after the
\* toggle), a hand is started only when two or more players are present,
\* all of them are ready and no hand is in progress; a start event received
\* while a hand is in progress leaves the table and the players as they
\* are.
C13_StartGating ==
    \A sid \in Seats :
        /\ StartsHand(State, on_start(State, sid)) => StartGate(State)
        /\ sid \in DOMAIN players =>
              (StartsHand(State, on_ready(State, sid)) =>
                  StartGate([State EXCEPT
                                !.ps = toggle_ready(players, sid)]))
        /\ table.started => on_start(State, sid) = State

\* C14: hand completion.  With no join or leave during the hand, and the
\* player designated at action_seat always eventually submitting a legal
\* action, every hand StartHand starts eventually returns to the idle
\* state: stage = waiting and started = false.
C14_HandCompletes ==
    table.started ~> (~table.started /\ table.stage = "waiting")

\* The players of the room other than the session sid.
Others(ps, sid) == [s \in DOMAIN ps \ {sid} |-> ps[s]]

\* C15: disconnect of the acting player.  When the session designated at
\* action_seat leaves during a hand, the table and the other players end
\* as a voluntary fold of that session through player_action leaves them:
\* the next player designated, or the hand settled and the table back to
\* waiting.
C15_DisconnectFolds ==
    \A sid \in DOMAIN players :
        (table.started /\ table.action_seat = sid) =>
            \E V \in player_action(State, sid, "fold", <<>>) :
                /\ remove_player(State, sid).t = V.t
                /\ remove_player(State, sid).ps = Others(V.ps, sid)

\* The calls of apply_action that carry an amount only with a raise, as
\* OnAction sends them.
SentCalls == {c \in Calls : c.amount \in AmountsOf(c.type)}

\* The hole cards the players of the room hold.
HoleCards(ps) == UNION {Range(ps[s].hand) : s \in DOMAIN ps}

\* The cards of the current deal a public snapshot shows outside its
\* showdown field: the board and the hand lines the log holds for this hand
\* (a player entry holds no card; a line of an earlier hand names cards of
\* that hand's deck).
CardsOutsideShowdown(pub) ==
    Range(pub.board)
       \cup UNION {Range(l.hand) : l \in {k \in pub.logs :
                                             k.hand_no = pub.handNo}}

\* The cards a public snapshot shows in its showdown field.
CardsOfShowdown(pub) ==
    UNION {Range(pub.showdown[s]) : s \in DOMAIN pub.showdown}

\* The state with the hole cards of every session but sid taken away.
OnlyHandOf(S, sid) ==
    [S EXCEPT !.ps = [s \in DOMAIN S.ps |->
                         IF s = sid THEN S.ps[s]
                         ELSE [S.ps[s] EXCEPT !.hand = <<>>]]]

\* The showdown field holds nothing while a hand is in progress, and after
\* it only hands of contenders of this hand's settled showdown: each is the
\* hand the log line of that showdown gives for the seat, and it is the
\* hand of the player at the seat unless that player has folded or has
\* no hand (a player who joined after the one who showed it had left).
ShowdownField ==
    /\ table.started => table.showdown_reveal = <<>>
    /\ \A s \in DOMAIN table.showdown_reveal :
          /\ [seat |-> s, hand_no |-> table.hand_no,
              hand |-> table.showdown_reveal[s]] \in logs
          /\ (s \in DOMAIN players /\ players[s].hand # <<>>) =>
                /\ ~players[s].folded
                /\ table.showdown_reveal[s] = players[s].hand

\* A settled showdown puts in the showdown field the hands of the players
\* who have not folded, and a hand ended by everyone else folding (the one
\* way apply_action itself ends a hand) puts nothing there.
ShowdownReveals ==
    \A c \in SentCalls :
        LET r == Answer(c)
        IN  (table.started /\ r.err = "none") =>
               /\ r.S.t.stage = "showdown" =>
                     \A scores \in ScoreChoices(r.S) :
                        finish_showdown(r.S, scores).t.showdown_reveal =
                           [s \in in_hand_seats(r.S.ps) |-> r.S.ps[s].hand]
               /\ ~r.S.t.started => r.S.t.showdown_reveal = <<>>

\* The private snapshot of a session shows that session's hand and does not
\* depend on any other hand.
PrivateSnapshot ==
    \A sid \in Seats :
        /\ private_state(State, sid) =
              private_state(OnlyHandOf(State, sid), sid)
        /\ sid \in DOMAIN players =>
              private_state(State, sid).hand = players[sid].hand

\* C16 as the spec states it: the public snapshot shows hole cards only in
\* its showdown field; that field is empty from StartHand until a showdown
\* is settled and holds only hands of players who had not folded at that
\* showdown; a hand ended by everyone else folding reveals nothing; the
\* private snapshot of a session holds that session's own hand only.
C16_PrivacyAsStated ==
    /\ CardsOutsideShowdown(public_state(State, logs))
          \cap HoleCards(players) = {}
    /\ \A s \in DOMAIN players :
          "hand" \notin DOMAIN public_state(State, logs).players[s]
    /\ ShowdownField
    /\ ShowdownReveals
    /\ PrivateSnapshot

\* C16, amended: the hole cards the public snapshot shows outside its
\* showdown field are cards that field shows too (the log lines a settled
\* showdown writes for the players who had not folded); the rest as stated.
C16_Privacy ==
    /\ CardsOutsideShowdown(public_state(State, logs))
          \cap HoleCards(players)
             \subseteq CardsOfShowdown(public_state(State, logs))
    /\ \A s \in DOMAIN players :
          "hand" \notin DOMAIN public_state(State, logs).players[s]
    /\ ShowdownField
    /\ ShowdownReveals
    /\ PrivateSnapshot

\* A showdown has been settled between two players while a third had
\* folded: the showdown field and the log show the hands of the two, and
\* the folded player's cards are nowhere in the public snapshot.
C16_Witness ==
    /\ ~table.started
    /\ Cardinality(DOMAIN table.showdown_reveal) = 2
    /\ logs # {}
    /\ \E s \in DOMAIN players :
          /\ players[s].folded
          /\ players[s].hand # <<>>
          /\ Range(players[s].hand)
                \cap (CardsOfShowdown(public_state(State, logs))
                         \cup CardsOutsideShowdown(public_state(State, logs)))
                = {}

\* What an accepted call takes from the caller's chips.
Paid(c) == players[c.sid].chips - Answer(c).S.ps[c.sid].chips

\* C17: stack and bet bounds.  In every reachable state every player has
\* chips >= 0, bet >= 0 and bet <= total_bet, and an accepted call or raise
\* takes from the player no more chips than the player holds, all of them
\* going to the pot.
C17_StackBounds ==
    /\ \A s \in DOMAIN players :
          /\ players[s].chips >= 0
          /\ players[s].bet >= 0
          /\ players[s].bet <= players[s].total_bet
    /\ \A c \in SentCalls :
          (Answer(c).err = "none" /\ Kind(c) \in {"call", "raise"}) =>
              /\ Paid(c) >= 0
              /\ Paid(c) <= players[c.sid].chips
              /\ Answer(c).S.t.pot = table.pot + Paid(c)

\* A player has called for less than the bet to match with the last of
\* their chips.
C17_Witness ==
    /\ table.started
    /\ \E s \in DOMAIN players :
          /\ players[s].all_in
          /\ players[s].chips = 0
          /\ players[s].bet > 0
          /\ players[s].bet < table.current_bet
          /\ s \notin {table.sb_seat, table.bb_seat}

\* C18: all-in flag.  In every reachable state, for every player, all_in
\* is true exactly when the player has no chips and has committed chips to
\* the current hand (total_bet > 0).
C18_AllInFlag ==
    \A s \in DOMAIN players :
        players[s].all_in <=>
            (players[s].chips = 0 /\ players[s].total_bet > 0)

\* C19: no folded-only layer.  Whenever an action brings the table to the
\* showdown with at least one player who has not folded, every
\* contribution level (distinct positive total_bet) is reached by the
\* total_bet of a player who has not folded, so finish_showdown skips no
\* layer.
C19_NoFoldedOnlyLayer ==
    \A c \in SentCalls :
        LET r == Answer(c)
        IN  (r.err = "none" /\ r.S.t.stage = "showdown"
                /\ in_hand_seats(r.S.ps) # {}) =>
               \A L \in levels(r.S.ps) :
                  \E s \in in_hand_seats(r.S.ps) : r.S.ps[s].total_bet >= L

\* The players a layer can be awarded to, and those of them with the best
\* (lowest) score.
Eligible(ps, L) == contributors(ps, L) \cap in_hand_seats(ps)

LayerWinners(ps, scores, L) ==
    {s \in Eligible(ps, L) :
        \A u \in Eligible(ps, L) : scores[s] <= scores[u]}

\* The award rule for the layer of level L under the given scores.
LayerRule(ps, scores, L) ==
    LET W == LayerWinners(ps, scores, L)
        size == (L - prev_level(ps, L)) * Cardinality(contributors(ps, L))
        got == [s \in DOMAIN ps |-> layer_payout(ps, scores, L, s)]
    IN  /\ \A s \in DOMAIN ps \ W : got[s] = 0
        /\ W # {} =>
              /\ SumOver(W, got) = size
              /\ \A s \in W :
                    got[s] \in {size \div Cardinality(W),
                                size \div Cardinality(W) + 1}
              /\ \A s, u \in W : s < u => got[s] >= got[u]

\* Scenario 4: three players at total_bet 300, none folded, seat 1 scoring
\* best, then seat 2, then seat 3.
Scenario4(ps, scores) ==
    /\ DOMAIN ps = 1..3
    /\ \A s \in DOMAIN ps : ps[s].total_bet = 300 /\ ~ps[s].folded
    /\ scores[1] < scores[2] /\ scores[2] < scores[3]

FollowingSeat(seats, d) ==
    IF \E s \in seats : s > d THEN Min({s \in seats : s > d})
    ELSE Min(seats)

\* C21: button rotation.  A StartHand accepted between two hands adds
\* exactly 1 to hand_no; the first one puts the button on the lowest
\* occupied seat, and every later one on the first occupied seat that
\* follows the previous dealer_seat in cyclic ascending order, whoever has
\* joined or left in between, the previous dealer included.
C21_ButtonRotation ==
    \A sid \in Seats :
        (~table.started /\ start_error(players, sid) = "none") =>
            LET R == on_start(State, sid)
            IN  /\ R.t.hand_no = table.hand_no + 1
                /\ R.t.dealer_seat =
                      IF table.dealer_seat = Null THEN Min(DOMAIN players)
                      ELSE FollowingSeat(DOMAIN players, table.dealer_seat)

\* The cards on the board at each stage of a hand.
BoardSize(stage) ==
    CASE stage = "preflop" -> 0
      [] stage = "flop" -> 3
      [] stage = "turn" -> 4
      [] OTHER -> 5

\* The stages of a hand in the order they are passed.
StageOrder == <<"preflop", "flop", "turn", "river", "showdown", "waiting">>

\* While a hand is in progress the board has the cards of the stage, and
\* _advance_stage moves a betting street one stage on.
BoardMatchesStage ==
    table.started =>
        /\ table.stage \in Range(SubSeq(StageOrder, 1, 5))
        /\ Len(table.board) = BoardSize(table.stage)
        /\ table.stage \in Streets =>
              advance_stage(State).t.stage =
                 StageOrder[IndexOf(StageOrder, table.stage) + 1]

\* What a room operation may do to the stage: leave it, or move it forward
\* along StageOrder (an operation that closes several rounds passes several
\* stages, and early termination goes straight to waiting).
MovesForward(R) ==
    R.t.stage # table.stage =>
        IndexOf(StageOrder, R.t.stage) > IndexOf(StageOrder, table.stage)

\* The states an action event, a leave or a disconnect can leave.
AfterActionOrLeave ==
    UNION {player_action(State, c.sid, c.type, c.amount) : c \in SentCalls}
       \cup {remove_player(State, sid) : sid \in DOMAIN players}

\* The states a start event or a ready event can leave.
AfterStartOrReady ==
    {on_start(State, sid) : sid \in Seats}
       \cup {on_ready(State, sid) : sid \in DOMAIN players}

\* C22: stage and board consistency.  In every reachable state with a hand
\* in progress the board holds 0 cards in preflop, 3 in flop, 4 in turn and
\* 5 in river and showdown; an action or a leave changes the stage only
\* along preflop, flop, turn, river, showdown, waiting, or from a betting
\* street directly to waiting, and a StartHand changes it only from waiting
\* to preflop.
C22_StageAndBoard ==
    /\ BoardMatchesStage
    /\ \A R \in AfterActionOrLeave : MovesForward(R)
    /\ \A R \in AfterStartOrReady :
          R.t.stage # table.stage =>
             table.stage = "waiting" /\ R.t.stage = "preflop"

\* The accepted call returns with the table on a later betting street.
EntersStreet(c) ==
    /\ Accepted(c)
    /\ StageMoves(c)
    /\ Answer(c).S.t.stage \in {"flop", "turn", "river"}

\* What a player has in the hand apart from the bet of the round.
Holdings(p) ==
    [chips |-> p.chips, total_bet |-> p.total_bet,
     folded |-> p.folded, all_in |-> p.all_in]

\* C23: street reset and its frame.  When an accepted action closes the
\* round and the table enters flop, turn or river, every player's bet of
\* the round is 0, current_bet is 0 and min_raise is big_blind whatever was
\* raised before, and the street change leaves every player's chips,
\* total_bet, folded and all_in and the pot as the action left them.
C23_StreetReset ==
    \A c \in SentCalls :
        EntersStreet(c) =>
            LET M == Mid(c)
                R == Answer(c).S
            IN  /\ \A s \in DOMAIN R.ps : R.ps[s].bet = 0
                /\ R.t.current_bet = 0
                /\ R.t.min_raise = big_blind
                /\ DOMAIN R.ps = DOMAIN M.ps
                /\ \A s \in DOMAIN R.ps :
                      Holdings(R.ps[s]) = Holdings(M.ps[s])
                /\ R.t.pot = M.t.pot

\* The turn has been entered after a bet of more than the big blind was
\* made and called on the flop: the bets and the minimum raise are reset,
\* and what was paid is in total_bet and the pot.
C23_Witness ==
    /\ table.started /\ table.stage = "turn"
    /\ table.current_bet = 0 /\ table.min_raise = big_blind
    /\ Len(table.to_act) >= 2
    /\ \E s \in DOMAIN players :
          /\ ~players[s].folded /\ ~players[s].all_in
          /\ players[s].bet = 0
          /\ players[s].total_bet > 2 * big_blind

\* to_act has no seat twice, holds only seats of players who are neither
\* folded nor all-in, and action_seat is its head, None when it is empty.
QueueWellFormed(S) ==
    /\ \A i, j \in DOMAIN S.t.to_act :
          S.t.to_act[i] = S.t.to_act[j] => i = j
    /\ Range(S.t.to_act) \subseteq CanAct(S.ps)
    /\ S.t.action_seat = HeadOrNull(S.t.to_act)

\* An accepted fold, check or call takes the acting seat, and nothing
\* else, out of to_act.
PopsActingSeat(c) ==
    (Accepted(c) /\ Kind(c) \in {"fold", "check", "call"}) =>
        /\ c.sid \in Range(table.to_act)
        /\ Mid(c).t.to_act =
              SelectSeq(table.to_act, LAMBDA x : x # c.sid)

\* C24: to-act queue well-formedness.  In every reachable state to_act has
\* no duplicate seat and only seats of players that are neither folded nor
\* all-in; action_seat is the head of to_act when it is non-empty and None
\* exactly when it is empty; each accepted fold, check or call removes
\* exactly the acting seat from to_act and keeps the order of the rest.
C24_ToActQueue ==
    /\ QueueWellFormed(State)
    /\ \A c \in SentCalls : PopsActingSeat(c)

\* C25: no stuck hand.  In every reachable state with a hand in progress on
\* a betting street, action_seat is not None and designates a player who
\* is in the room, has not folded and is not all-in.
C25_NoStuckHand ==
    (table.started /\ table.stage \in Streets) =>
        /\ table.action_seat # Null
        /\ table.action_seat \in CanAct(players)

\* The players who joined while the hand was in progress: they were dealt
\* no cards.
Joiners(S) == {s \in DOMAIN S.ps : S.ps[s].hand = <<>>}

\* The players dealt into the hand who have not folded.
DealtInHand(S) == in_hand_seats(S.ps) \ Joiners(S)

\* C26: a mid-hand joiner is a bystander.  While a hand is in progress, a
\* player who joined during it is not in to_act and is not designated at
\* action_seat; an accepted action that leaves one dealt-in player
\* non-folded ends the hand; and an action that ends the hand reveals no
\* hand for the joiner and pays the joiner nothing.
C26_JoinerIsBystander ==
    table.started =>
        \A j \in Joiners(State) :
            /\ j \notin Range(table.to_act)
            /\ table.action_seat # j
            /\ \A c \in SentCalls :
                  Accepted(c) =>
                     /\ Cardinality(DealtInHand(Mid(c))) = 1 =>
                           ~Answer(c).S.t.started
                     /\ \A R \in player_action(State, c.sid, c.type,
                                                c.amount) :
                           ~R.t.started =>
                              /\ j \notin DOMAIN R.t.showdown_reveal
                              /\ R.ps[j].chips <= players[j].chips

====
